---- MODULE Spec2Model ----
(***************************************************************************)
(* A model of pcarpet.Dataset (src/pcarpet/pcarpet.py): construction with  *)
(* shape validation, get_carpet (masking, tSNR filtering, z-scoring,       *)
(* reordering, saving) and fit_pca_and_correlate (PCA, saving, correlation *)
(* with the carpet, report, sign flip).                                    *)
(*                                                                         *)
(* Numbers.  Voxel samples are small integers.  A float that may be NaN is *)
(* a record [nan, v].  Every time series of the model has two samples, for *)
(* which the z-score is exactly +1/-1 (or NaN for a constant series), so   *)
(* the carpet is held exactly.  A Pearson coefficient is held as           *)
(* [nan, n, d], standing for n / (sqrt(d) + EPSILON): n is the numerator   *)
(* and d the product of the two sums of squares, both taken on rows        *)
(* scaled by their length (a positive scaling, which the coefficient does  *)
(* not see).  EPSILON is treated as a positive infinitesimal.              *)
(***************************************************************************)
EXTENDS Integers, Sequences, FiniteSets, TLC

VARIABLES
    attrs,          \* names of the attributes set on the Dataset object
    shape,          \* (self.x, self.y, self.z, self.t)
    data,           \* self.data: voxel coordinate -> time series
    mask,           \* self.mask: voxel coordinate -> value, in tenths
    carpet,         \* self.carpet: sequence of rows of floats
    ncomp,          \* self.ncomp
    expl_var,       \* self.expl_var
    PCs,            \* self.PCs: one vector per retained component
    PC_carpet_R,    \* self.PC_carpet_R: voxels x ncomp coefficients
    store,          \* the files of output_dir
    pc,             \* position inside fit_pca_and_correlate
    err,            \* the exception that ended the last call, if any
    last,           \* the last method called
    gargs,          \* tSNR_thresh and reorder of the last get_carpet call
    fargs,          \* arguments of the running fit_pca_and_correlate call
    indices_valid,  \* get_carpet's local indices_valid
    sort_index,     \* get_carpet's local sort_index
    model,          \* fit_pca_and_correlate's local model (the fitted PCA)
    loc,            \* fit_pca_and_correlate's locals PCs, PC_carpet_R, report
    calls           \* number of method calls made on the Dataset

vars == <<attrs, shape, data, mask, carpet, ncomp, expl_var, PCs, PC_carpet_R,
          store, pc, err, last, gargs, fargs, indices_valid, sort_index,
          model, loc, calls>>

(***************************************************************************)
(* Bounds of the model and constants of the program.                       *)
(***************************************************************************)
\* Largest tSNR threshold tried (thresholds are None, 1 .. MaxThresh).
MaxThresh == 2
\* Largest component count requested (ncomp is -1 .. MaxNcomp, or a string).
MaxNcomp == 3
\* Method calls made on one Dataset.
MaxCalls == 2
\* The mask cut 0.5 of get_carpet, in tenths.
MaskCut == 5

\* What a voxel of the region of interest may hold: a mask value in tenths
\* and a time series.  Masked out; on the cut with a falling series of high
\* tSNR; inside with a rising series of low tSNR; inside and constant.
VoxelKinds ==
    {[mask |-> 0, series |-> <<2, 1>>],
     [mask |-> 5, series |-> <<2, 1>>],
     [mask |-> 10, series |-> <<0, 1>>],
     [mask |-> 10, series |-> <<1, 1>>]}
\* A voxel outside the region of interest: masked out, no signal.
Background == [mask |-> 0, series |-> <<0, 0>>]
\* Number of samples of every series of the model.
NumSamples == Len(Background.series)
\* The voxels whose mask value and series vary between the volumes tried.
RegionOfInterest == {<<0, 0, 1>>, <<0, 1, 0>>, <<1, 0, 0>>}
\* Spatial shapes: one with a unit axis, one without.
SliceShape == <<2, 2, 1>>
CubeShape == <<2, 2, 2>>

(***************************************************************************)
(* Floats.                                                                 *)
(***************************************************************************)
Num(n) == [nan |-> FALSE, v |-> n]
NaN == [nan |-> TRUE, v |-> 0]
Neg(x) == IF x.nan THEN x ELSE Num(0 - x.v)

RECURSIVE SumSeq(_)
SumSeq(s) == IF s = <<>> THEN 0 ELSE Head(s) + SumSeq(Tail(s))

Sgn(n) == IF n > 0 THEN 1 ELSE IF n < 0 THEN 0 - 1 ELSE 0
Min(a, b) == IF a <= b THEN a ELSE b
Max(a, b) == IF a >= b THEN a ELSE b

\* Integer square root.
isqrt(n) == CHOOSE r \in 0..n : r * r <= n /\ (r + 1) * (r + 1) > n

Reverse(s) == [i \in 1..Len(s) |-> s[Len(s) + 1 - i]]

(***************************************************************************)
(* Arrays: coordinates are 0-based, as in numpy.                           *)
(***************************************************************************)
Coordinates(s) ==
    {<<x, y, z>> : x \in 0..(s[1] - 1), y \in 0..(s[2] - 1), z \in 0..(s[3] - 1)}

NumVoxels(s) == s[1] * s[2] * s[3]

\* Row of voxel c in data_masked.reshape((-1, self.t)): C order.
FlatIndex(c, s) == (c[1] * s[2] + c[2]) * s[3] + c[3]

VoxelAt(r, s) == CHOOSE c \in Coordinates(s) : FlatIndex(c, s) = r

\* numpy's squeeze(): the axes of length 1 are dropped.
squeeze(s) == SelectSeq(s, LAMBDA d : d # 1)

(***************************************************************************)
(* Dataset.__init__ and import_data.                                       *)
(***************************************************************************)
NoError == [type |-> "none", line |-> 0]
Raised(type, line) == [type |-> type, line |-> line]

\* A mutant of import_data_error: the arrays' spaces are not compared.
import_data_error_m(dshape, mshape) ==
    IF Len(dshape) # 4 THEN Raised("ValueError", 122)
    ELSE IF Len(mshape) # 3 THEN Raised("ValueError", 124)
    ELSE NoError

\* The shape checks of import_data.
import_data_error(dshape, mshape) ==
    IF Len(dshape) # 4 THEN Raised("ValueError", 122)
    ELSE IF Len(mshape) # 3 THEN Raised("ValueError", 124)
    ELSE IF SubSeq(dshape, 1, 3) # mshape THEN Raised("ValueError", 126)
    ELSE NoError

\* The voxels of a volume of spatial shape s.
VoxelContents(s) ==
    {[c \in Coordinates(s) |-> IF c \in RegionOfInterest THEN f[c] ELSE Background] :
        f \in [RegionOfInterest -> VoxelKinds]}

\* Shapes of the arrays the loader may return, for spatial shapes S.
DataShapes(S) ==
    {s \o <<NumSamples>> : s \in S} \cup {SliceShape, CubeShape \o <<NumSamples, 1>>}

MaskShapes(S) == S \cup {<<2, 2>>, CubeShape \o <<1>>}

NcompInts == (0 - 1)..MaxNcomp

NoStore ==
    [carpet_npy |-> <<>>,
     pca_components_all_npy |-> <<>>,
     pca_explained_variance_all_npy |-> <<>>,
     pca_scores_all_npy |-> <<>>,
     pca_components_csv |-> [n \in NcompInts |-> <<>>],
     pca_carpet_correlation_report_csv |-> <<>>]

NoThresh == [none |-> TRUE, v |-> 0]
Thresh(k) == [none |-> FALSE, v |-> k]

NoGargs == [tSNR_thresh |-> NoThresh, reorder |-> FALSE]
NoFargs == [ncomp |-> [kind |-> "int", v |-> 0], save_pca_scores |-> FALSE,
            flip_sign |-> FALSE]

Init ==
    /\ attrs = {}
    /\ shape = <<>>
    /\ data = <<>>
    /\ mask = <<>>
    /\ carpet = <<>>
    /\ ncomp = 0
    /\ expl_var = <<>>
    /\ PCs = <<>>
    /\ PC_carpet_R = <<>>
    /\ store = NoStore
    /\ pc = "idle"
    /\ err = NoError
    /\ last = "none"
    /\ gargs = NoGargs
    /\ fargs = NoFargs
    /\ indices_valid = <<>>
    /\ sort_index = <<>>
    /\ model = <<>>
    /\ loc = <<>>
    /\ calls = 0

\* Dataset.__init__ on the arrays the loader returns, of spatial shapes in S.
Construct(S) ==
    /\ "data" \notin attrs
    /\ pc = "idle"
    /\ \E dshape \in DataShapes(S), mshape \in MaskShapes(S) :
        LET e == import_data_error(dshape, mshape) IN
        /\ last' = "construct"
        /\ err' = e
        /\ IF e # NoError
           THEN UNCHANGED <<attrs, shape, data, mask>>
           ELSE /\ attrs' = attrs \cup {"x", "y", "z", "t", "data", "mask"}
                /\ shape' = dshape
                /\ \E vox \in VoxelContents(mshape) :
                      /\ data' = [c \in Coordinates(mshape) |-> vox[c].series]
                      /\ mask' = [c \in Coordinates(mshape) |-> vox[c].mask]
    /\ UNCHANGED <<carpet, ncomp, expl_var, PCs, PC_carpet_R, store, pc, gargs,
                   fargs, indices_valid, sort_index, model, loc, calls>>

(***************************************************************************)
(* pearsonr_2d and the numeric helpers of get_carpet.                      *)
(***************************************************************************)
\* data_tsnr < th for the series x, where
\* data_tsnr = mean / (std + EPSILON) = S / (sqrt(D) + T * EPSILON),
\* S the sum of x and D = T * (sum of squares) - S * S.
TsnrLess(x, th) ==
    LET T == Len(x)
        S == SumSeq(x)
        D == T * SumSeq([t \in 1..T |-> x[t] * x[t]]) - S * S
    IN  IF th > 0 THEN S <= 0 \/ S * S <= th * th * D
        ELSE IF th = 0 THEN S < 0
        ELSE S < 0 /\ S * S > th * th * D

\* scipy.stats.zscore of one row (exact when the deviation is rational).
zscore(x) ==
    LET T == Len(x)
        S == SumSeq(x)
        D == T * SumSeq([t \in 1..T |-> x[t] * x[t]]) - S * S
    IN  IF D = 0 THEN [t \in 1..T |-> NaN]
        ELSE [t \in 1..T |-> Num((T * x[t] - S) \div isqrt(D))]

HasNaN(row) == \E t \in 1..Len(row) : row[t].nan

\* A row minus its mean, times its length.
Centered(row) ==
    LET T == Len(row)
        S == SumSeq([t \in 1..T |-> row[t].v])
    IN  [t \in 1..T |-> T * row[t].v - S]

Dot(a, b) == SumSeq([t \in 1..Len(a) |-> a[t] * b[t]])

CorrNaN == [nan |-> TRUE, n |-> 0, d |-> 0]

\* One entry of pearsonr_2d.
Pearson(a, b) ==
    IF HasNaN(a) \/ HasNaN(b) THEN CorrNaN
    ELSE LET ca == Centered(a)
             cb == Centered(b)
         IN  [nan |-> FALSE, n |-> Dot(ca, cb), d |-> Dot(ca, ca) * Dot(cb, cb)]

\* pearsonr_2d(A, B): rows of A against rows of B.
pearsonr_2d(A, B) ==
    [i \in 1..Len(A) |-> [j \in 1..Len(B) |-> Pearson(A[i], B[j])]]

\* x < y for two coefficients (false when either is NaN).
CorrLess(x, y) ==
    LET dx == IF x.d = 0 THEN 1 ELSE x.d
        dy == IF y.d = 0 THEN 1 ELSE y.d
    IN  /\ ~x.nan
        /\ ~y.nan
        /\ Sgn(x.n) * x.n * x.n * dy < Sgn(y.n) * y.n * y.n * dx

CorrNeg(x) == IF x.nan THEN x ELSE [x EXCEPT !.n = 0 - x.n]

\* np.mean(carpet, axis=0), times the number of rows.
GlobalSignal(c, T) ==
    [t \in 1..T |->
        IF c = <<>> \/ \E i \in 1..Len(c) : c[i][t].nan THEN NaN
        ELSE Num(SumSeq([i \in 1..Len(c) |-> c[i][t].v]))]

\* pearsonr_2d(carpet, gs.reshape((1, self.t))).flatten()
GsCorr(c, T) ==
    LET R == pearsonr_2d(c, <<GlobalSignal(c, T)>>)
    IN  [i \in 1..Len(c) |-> R[i][1]]

\* np.argsort: any order that is ascending with NaN last (its default sort
\* is not stable).  Indices are 0-based.
argsort(vals) ==
    LET n == Len(vals)
        Before(x, y) == ~x.nan /\ (y.nan \/ CorrLess(x, y))
    IN  {p \in [1..n -> 0..(n - 1)] :
            /\ \A a, b \in 1..n : a # b => p[a] # p[b]
            /\ \A a, b \in 1..n : a < b => ~Before(vals[p[b] + 1], vals[p[a] + 1])}

\* A mutant of SortIndices: np.flip is left out.
SortIndices_m(gs_corr) == argsort(gs_corr)

\* [int(i) for i in np.flip(np.argsort(gs_corr))]
SortIndices(gs_corr) == {Reverse(p) : p \in argsort(gs_corr)}

\* A mutant of TakeRows: every row is the one sort_index names first.
TakeRows_m(c, idx) == [k \in 1..Len(idx) |-> c[idx[1] + 1]]

\* carpet[sort_index, :]
TakeRows(c, idx) == [k \in 1..Len(idx) |-> c[idx[k] + 1]]

\* Whether voxel c is masked in data_masked (at every sample alike).
Masked(c, m, d, th) ==
    LET mask_4d == m[c] < MaskCut
        tsnr_mask_4d == IF th.none THEN FALSE ELSE TsnrLess(d[c], th.v)
    IN  mask_4d \/ tsnr_mask_4d

\* np.where(np.any(~mask, axis=1))[0] over rows r .. of data_2d.
RECURSIVE WhereValid(_, _, _, _, _)
WhereValid(r, s, m, d, th) ==
    IF r >= NumVoxels(s) THEN <<>>
    ELSE LET rest == WhereValid(r + 1, s, m, d, th)
         IN  IF \E t \in 1..s[4] : ~Masked(VoxelAt(r, s), m, d, th)
             THEN <<r>> \o rest
             ELSE rest

\* The rows of indices iv, z-scored.
CarpetRows(iv, s, d) == [k \in 1..Len(iv) |-> zscore(d[VoxelAt(iv[k], s)])]

\* tsnr_mask[:, :, :, np.newaxis] needs three axes left by squeeze().
TsnrMaskIndexable(s) == Len(squeeze(SubSeq(s, 1, 3) \o <<1>>)) >= 3

ThreshArgs == {NoThresh} \cup {Thresh(k) : k \in 1..MaxThresh}

get_carpet ==
    /\ "data" \in attrs
    /\ pc = "idle"
    /\ calls < MaxCalls
    /\ calls' = calls + 1
    /\ last' = "get_carpet"
    /\ \E th \in ThreshArgs, reorder \in BOOLEAN, save \in BOOLEAN :
        /\ gargs' = [tSNR_thresh |-> th, reorder |-> reorder]
        /\ IF ~th.none /\ ~TsnrMaskIndexable(shape)
           THEN /\ err' = Raised("IndexError", 169)
                /\ UNCHANGED <<attrs, carpet, store, indices_valid, sort_index>>
           ELSE \E iv \in {WhereValid(0, shape, mask, data, th)} :
                \E c0 \in {CarpetRows(iv, shape, data)} :
                \E si \in (IF reorder THEN SortIndices(GsCorr(c0, shape[4]))
                           ELSE {<<>>}) :
                \E c1 \in {IF reorder THEN TakeRows(c0, si) ELSE c0} :
                    /\ indices_valid' = iv
                    /\ sort_index' = si
                    /\ carpet' = c1
                    /\ store' = IF save THEN [store EXCEPT !.carpet_npy = <<c1>>]
                                ELSE store
                    /\ attrs' = attrs \cup {"carpet"}
                    /\ err' = NoError
    /\ UNCHANGED <<shape, data, mask, ncomp, expl_var, PCs, PC_carpet_R, pc,
                   fargs, model, loc>>


(***************************************************************************)
(* fit_pca_and_correlate.                                                  *)
(*                                                                         *)
(* sklearn's PCA is outside the repository.  Its fit is any sequence of    *)
(* min(voxels, samples) pairwise orthogonal directions, of no increasing   *)
(* variance along them, with either sign; it rejects an empty matrix and a *)
(* matrix that holds a NaN.  Directions are held up to a positive scale.   *)
(***************************************************************************)
\* The directions tried: the sign patterns over the samples.
CompVecs == [1..NumSamples -> {Num(0 - 1), Num(1)}]

\* Column sums of the carpet c of T columns.
ColSums(c, T) == [t \in 1..T |-> SumSeq([i \in 1..Len(c) |-> c[i][t].v])]

\* Row i of c minus the column means, times the number of rows, along w.
Projection(c, T, i, w) ==
    LET cs == ColSums(c, T)
    IN  SumSeq([t \in 1..T |-> (Len(c) * c[i][t].v - cs[t]) * w[t].v])

\* Variance of the carpet along w (up to a positive scale).
VarAlong(c, T, w) ==
    SumSeq([i \in 1..Len(c) |-> Projection(c, T, i, w) * Projection(c, T, i, w)])

\* explained_variance_ratio_, in percent: NaN when there is no variance.
ExplainedRatio(c, T, comps) ==
    LET total == SumSeq([k \in 1..Len(comps) |-> VarAlong(c, T, comps[k])])
    IN  [k \in 1..Len(comps) |->
            IF total = 0 THEN NaN
            ELSE Num((100 * VarAlong(c, T, comps[k])) \div total)]

\* The fitted models PCA(whiten=True).fit_transform(carpet) may leave.
PCAFits(c, T) ==
    LET K == Min(Len(c), T)
    IN  {[components_ |-> comps,
          explained_variance_ratio_ |-> ExplainedRatio(c, T, comps),
          scores |-> [i \in 1..Len(c) |->
                        [k \in 1..K |-> Projection(c, T, i, comps[k])]]] :
            comps \in {w \in [1..K -> CompVecs] :
                /\ \A j, k \in 1..K :
                     j # k => SumSeq([t \in 1..T |-> w[j][t].v * w[k][t].v]) = 0
                /\ \A j, k \in 1..K :
                     j < k => VarAlong(c, T, w[j]) >= VarAlong(c, T, w[k])}}

\* Whether PCA raises on the carpet c.
PCARejects(c) == c = <<>> \/ \E i \in 1..Len(c) : HasNaN(c[i])

\* Length of the Python slice seq[:n] of a sequence of length len.
SliceLen(len, n) == IF n >= 0 THEN Min(n, len) ELSE Max(len + n, 0)

\* Length of range(n).
RangeLen(n) == Max(n, 0)

\* Column j of a matrix of coefficients.
Column(R, j) == [i \in 1..Len(R) |-> R[i][j]]

\* np.median of coefficients that share their denominator.
Median(vals) ==
    LET n == Len(vals)
        s == CHOOSE q \in argsort(vals) : TRUE
        lo == vals[s[(n + 1) \div 2] + 1]
        hi == vals[s[(n + 2) \div 2] + 1]
    IN  IF n % 2 = 1 THEN lo
        ELSE [nan |-> lo.nan \/ hi.nan, n |-> lo.n + hi.n, d |-> 4 * lo.d]

\* report['carpet_R_median'].values[i] < 0
Negative(x) == ~x.nan /\ x.n < 0

NcompArgs == {[kind |-> "int", v |-> n] : n \in NcompInts} \cup {[kind |-> "str", v |-> 0]}

\* Return from fit_pca_and_correlate: its arguments and locals are gone.
FitReturns ==
    /\ pc' = "idle"
    /\ fargs' = NoFargs
    /\ model' = <<>>
    /\ loc' = <<>>

\* A mutant of CarpetMissing: the attribute is never looked up.
CarpetMissing_m == FALSE

\* self.carpet at line 239 raises when get_carpet never set it.
CarpetMissing == "carpet" \notin attrs

\* Lines 232-241: int(ncomp), the PCA fit, self.expl_var.
fit_pca ==
    /\ "data" \in attrs
    /\ pc = "idle"
    /\ calls < MaxCalls
    /\ calls' = calls + 1
    /\ last' = "fit_pca_and_correlate"
    /\ \E nc \in NcompArgs, save_pca_scores \in BOOLEAN, flip_sign \in BOOLEAN :
        \* int(ncomp): the ValueError of a string is caught and printed
        /\ ncomp' = IF nc.kind = "int" THEN nc.v ELSE ncomp
        /\ IF CarpetMissing
           THEN /\ err' = Raised("AttributeError", 239)
                /\ attrs' = attrs \cup (IF nc.kind = "int" THEN {"ncomp"} ELSE {})
                /\ FitReturns
                /\ UNCHANGED expl_var
           ELSE IF PCARejects(carpet)
           THEN /\ err' = Raised("ValueError", 239)
                /\ attrs' = attrs \cup (IF nc.kind = "int" THEN {"ncomp"} ELSE {})
                /\ FitReturns
                /\ UNCHANGED expl_var
           ELSE \E m \in PCAFits(carpet, shape[4]) :
                /\ err' = NoError
                /\ attrs' = attrs \cup {"expl_var"}
                                  \cup (IF nc.kind = "int" THEN {"ncomp"} ELSE {})
                /\ model' = m
                /\ expl_var' = m.explained_variance_ratio_
                /\ fargs' = [ncomp |-> nc, save_pca_scores |-> save_pca_scores,
                             flip_sign |-> flip_sign]
                /\ pc' = "save"
                /\ UNCHANGED loc
    /\ UNCHANGED <<shape, data, mask, carpet, PCs, PC_carpet_R, store, gargs,
                   indices_valid, sort_index>>

\* The files np.save writes at lines 244-250.
SavedAll(st, m, save_pca_scores) ==
    [st EXCEPT !.pca_components_all_npy = <<m.components_>>,
               !.pca_explained_variance_all_npy = <<m.explained_variance_ratio_>>,
               !.pca_scores_all_npy = IF save_pca_scores THEN <<m.scores>> ELSE @]

\* The report table of lines 265-269.
Report(n, ev, R) ==
    [PC |-> [i \in 1..RangeLen(n) |-> i],
     expl_var |-> SubSeq(ev, 1, SliceLen(Len(ev), n)),
     carpet_R_median |-> [i \in 1..RangeLen(n) |-> Median(Column(R, i))]]

\* A mutant of SavedTables: the tables are written with the flipped signs.
SavedTables_m(st, n, P, rep) ==
    [st EXCEPT
        !.pca_components_csv[n] =
            <<[i \in 1..Len(P) |->
                IF Negative(rep.carpet_R_median[i])
                THEN [t \in 1..Len(P[i]) |-> Neg(P[i][t])] ELSE P[i]]>>,
        !.pca_carpet_correlation_report_csv =
            <<[rep EXCEPT !.carpet_R_median =
                [i \in 1..Len(P) |->
                    IF Negative(rep.carpet_R_median[i])
                    THEN CorrNeg(rep.carpet_R_median[i])
                    ELSE rep.carpet_R_median[i]]]>>]

\* PCs.to_csv at lines 255-256 and report.to_csv at lines 270-272.
SavedTables(st, n, P, rep) ==
    [st EXCEPT !.pca_components_csv[n] = <<P>>,
               !.pca_carpet_correlation_report_csv = <<rep>>]

\* Lines 243-272: the saves, the first ncomp components, the correlation
\* with the carpet and the report.
fit_save ==
    /\ pc = "save"
    /\ \E st \in {SavedAll(store, model, fargs.save_pca_scores)} :
        IF fargs.ncomp.kind # "int"
        THEN \* range(ncomp) of a string
             /\ store' = st
             /\ err' = Raised("TypeError", 252)
             /\ FitReturns
        ELSE IF SliceLen(Len(model.components_), fargs.ncomp.v)
                    # RangeLen(fargs.ncomp.v)
        THEN \* pd.DataFrame: the columns do not match comp_names
             /\ store' = st
             /\ err' = Raised("ValueError", 253)
             /\ FitReturns
        ELSE \E P \in {SubSeq(model.components_, 1, RangeLen(fargs.ncomp.v))} :
             \E R \in {pearsonr_2d(carpet, P)} :
             \E rep \in {Report(fargs.ncomp.v, expl_var, R)} :
                 /\ store' = SavedTables(st, fargs.ncomp.v, P, rep)
                 /\ loc' = [PCs |-> P, PC_carpet_R |-> R, report |-> rep]
                 /\ pc' = "flip"
                 /\ UNCHANGED <<err, fargs, model>>
    /\ UNCHANGED <<attrs, shape, data, mask, carpet, ncomp, expl_var, PCs,
                   PC_carpet_R, last, gargs, indices_valid, sort_index, calls>>

\* Whether lines 273-277 negate component i.
Flips(flip_sign, rep, i) == flip_sign /\ Negative(rep.carpet_R_median[i])

\* A mutant of FlippedPCs: only the correlations are negated.
FlippedPCs_m(flip_sign, P, rep) == P

\* PCs after lines 273-277.
FlippedPCs(flip_sign, P, rep) ==
    [i \in 1..Len(P) |->
        IF Flips(flip_sign, rep, i)
        THEN [t \in 1..Len(P[i]) |-> Neg(P[i][t])] ELSE P[i]]

\* A mutant of FlippedR: only the components are negated.
FlippedR_m(flip_sign, R, rep) == R

\* PC_carpet_R after lines 273-277.
FlippedR(flip_sign, R, rep) ==
    [v \in 1..Len(R) |->
        [i \in 1..Len(R[v]) |->
            IF Flips(flip_sign, rep, i) THEN CorrNeg(R[v][i]) ELSE R[v][i]]]

\* Lines 273-280: the sign flip, self.PCs and self.PC_carpet_R.
fit_flip ==
    /\ pc = "flip"
    /\ PCs' = FlippedPCs(fargs.flip_sign, loc.PCs, loc.report)
    /\ PC_carpet_R' = FlippedR(fargs.flip_sign, loc.PC_carpet_R, loc.report)
    /\ attrs' = attrs \cup {"PCs", "PC_carpet_R"}
    /\ FitReturns
    /\ UNCHANGED <<shape, data, mask, carpet, ncomp, expl_var, store, err, last,
                   gargs, indices_valid, sort_index, calls>>

(***************************************************************************)
(* Specifications.  SpecCarpet: construction and get_carpet on volumes of  *)
(* both shapes.  Spec: the whole pipeline on volumes of the slice shape.   *)
(***************************************************************************)
NextCarpet == Construct({SliceShape, CubeShape}) \/ get_carpet

SpecCarpet == Init /\ [][NextCarpet]_vars

Next ==
    \/ Construct({SliceShape})
    \/ get_carpet
    \/ fit_pca
    \/ fit_save
    \/ fit_flip

Spec == Init /\ [][Next]_vars

(***************************************************************************)
(* The claims.                                                             *)
(***************************************************************************)
Space == SubSeq(shape, 1, 3)

\* c comes before e in row-major (lexicographic) order.
LexLess(c, e) ==
    \/ c[1] < e[1]
    \/ c[1] = e[1] /\ c[2] < e[2]
    \/ c[1] = e[1] /\ c[2] = e[2] /\ c[3] < e[3]

\* Position of voxel c in the row-major flattening, from 0.
RowMajorRank(c) == Cardinality({e \in Coordinates(Space) : LexLess(e, c)})

\* The voxels the claim retains: Mask >= 0.5 and, with a threshold, tSNR >= it.
Retained(th) ==
    {c \in Coordinates(Space) :
        mask[c] >= MaskCut /\ (th.none \/ ~TsnrLess(data[c], th.v))}

GetCarpetCalled == last = "get_carpet"
GetCarpetReturned == last = "get_carpet" /\ err = NoError

\* C1 (as claimed).  Every get_carpet call, whatever the volume and the
\* threshold, leaves indices_valid holding exactly the retained voxels (mask
\* >= 0.5 and, with a threshold, tSNR >= threshold) in row-major order, and a
\* carpet of one row per retained voxel.
C1_RetainedVoxels ==
    GetCarpetCalled =>
        /\ err = NoError
        /\ Len(indices_valid) = Cardinality(Retained(gargs.tSNR_thresh))
        /\ {indices_valid[k] : k \in 1..Len(indices_valid)}
              = {RowMajorRank(c) : c \in Retained(gargs.tSNR_thresh)}
        /\ \A j, k \in 1..Len(indices_valid) :
              j < k => indices_valid[j] < indices_valid[k]
        /\ Len(carpet) = Len(indices_valid)

\* C2.  A Dataset holds data and mask only when the volume is 4-D and the
\* mask is 3-D over the volume's first three dimensions; a construction that
\* import_data's shape checks ended leaves no attribute on the object.
C2_ShapesValidated ==
    /\ "data" \in attrs =>
          /\ Len(shape) = 4
          /\ DOMAIN data = Coordinates(Space)
          /\ DOMAIN mask = Coordinates(Space)
          /\ {"x", "y", "z", "t", "mask"} \subseteq attrs
    /\ (last = "construct" /\ err # NoError) =>
          /\ err.type = "ValueError"
          /\ attrs = {}
          /\ data = <<>>
          /\ mask = <<>>

\* C2's case: a construction refused because the mask is in another space.
C2_Witness ==
    last = "construct" /\ err = Raised("ValueError", 126) /\ attrs = {}

\* The carpet before reordering, from the retained indices.
CarpetBefore == CarpetRows(indices_valid, shape, data)

\* How many rows of c equal r.
Count(c, r) == Cardinality({i \in 1..Len(c) : c[i] = r})

\* C3.  After get_carpet with reorder, the carpet holds the rows it held
\* before reordering, each as many times, and no row correlates with the
\* global signal more than the first row does.
C3_ReorderPermutes ==
    (GetCarpetReturned /\ gargs.reorder) =>
        /\ Len(carpet) = Len(CarpetBefore)
        /\ \A i \in 1..Len(carpet) :
              Count(carpet, carpet[i]) = Count(CarpetBefore, carpet[i])
        /\ \A i \in 1..Len(carpet) :
              ~CorrLess(GsCorr(carpet, shape[4])[1], GsCorr(carpet, shape[4])[i])

\* C3's case: a reordering that moved rows, of a carpet whose rows differ in
\* their correlation with the global signal.
C3_Witness ==
    /\ GetCarpetReturned
    /\ gargs.reorder
    /\ carpet # CarpetBefore
    /\ \E i \in 1..Len(carpet) :
          CorrLess(GsCorr(carpet, shape[4])[i], GsCorr(carpet, shape[4])[1])

\* The correlation with the global signal of the row sort_index names at k.
SortedCorr(k) == GsCorr(CarpetBefore, shape[4])[sort_index[k] + 1]

Tied(x, y) == ~x.nan /\ ~y.nan /\ ~CorrLess(x, y) /\ ~CorrLess(y, x)

\* C8 (as claimed).  The reordering is descending and stable: of two rows of
\* equal correlation, the one that was first before reordering stays first.
C8_StableSort ==
    (GetCarpetReturned /\ gargs.reorder) =>
        \A j, k \in 1..Len(sort_index) :
            j < k =>
                /\ ~CorrLess(SortedCorr(j), SortedCorr(k))
                /\ Tied(SortedCorr(j), SortedCorr(k)) =>
                      sort_index[j] < sort_index[k]

\* C8 (amended).  sort_index names every row once, in descending order of
\* correlation with the global signal; nothing is promised on the order of
\* rows of equal correlation.
C8_Descending ==
    (GetCarpetReturned /\ gargs.reorder) =>
        /\ Len(sort_index) = Len(indices_valid)
        /\ {sort_index[k] : k \in 1..Len(sort_index)} = 0..(Len(indices_valid) - 1)
        /\ \A j, k \in 1..Len(sort_index) :
              j < k => ~CorrLess(SortedCorr(j), SortedCorr(k))
        /\ carpet = [k \in 1..Len(sort_index) |-> CarpetBefore[sort_index[k] + 1]]

\* C8's case: two rows of equal correlation that the reordering swapped,
\* in a carpet that also holds a row of another correlation.
C8_Witness ==
    /\ GetCarpetReturned
    /\ gargs.reorder
    /\ \E j, k \in 1..Len(sort_index) :
          j < k /\ Tied(SortedCorr(j), SortedCorr(k)) /\ sort_index[j] > sort_index[k]
    /\ \E j, k \in 1..Len(sort_index) : CorrLess(SortedCorr(k), SortedCorr(j))

\* C7 (as claimed).  get_carpet never returns normally with an empty carpet:
\* when no voxel is retained it fails instead.
C7_EmptyResult ==
    GetCarpetReturned => carpet # <<>>

NonNegative(x) == ~x.nan /\ x.n >= 0

\* C4.  When fit_pca_and_correlate, called with flip_sign, reaches its end,
\* the median of every column of the PC_carpet_R it leaves is >= 0.
C4_MediansNonNegative ==
    [][(pc = "flip" /\ fargs.flip_sign) =>
          /\ Len(PCs') = RangeLen(fargs.ncomp.v)
          /\ \A v \in 1..Len(PC_carpet_R') : Len(PC_carpet_R'[v]) = Len(PCs')
          /\ \A i \in 1..Len(PCs') :
                NonNegative(Median(Column(PC_carpet_R', i)))]_vars

\* The tables on disk, once written.
SavedReport == store.pca_carpet_correlation_report_csv[1]

\* C4's case: a finished fit whose report on disk holds a negative median
\* for a component whose column in memory has a positive one.
C4_Witness ==
    /\ pc = "idle"
    /\ "PC_carpet_R" \in attrs
    /\ store.pca_carpet_correlation_report_csv # <<>>
    /\ Len(SavedReport.carpet_R_median) = Len(PCs)
    /\ \E i \in 1..Len(PCs) :
          /\ Negative(SavedReport.carpet_R_median[i])
          /\ Negative(CorrNeg(Median(Column(PC_carpet_R, i))))

\* C5.  What fit_pca_and_correlate writes is the fit's own output, with the
\* sign PCA gave it: all the components, the explained variance, the scores
\* (when asked for), the first ncomp components and the report of their
\* medians; and the sign flip that follows writes nothing.
C5_ArtifactsUnflipped ==
    [][/\ (pc = "save" /\ pc' = "flip") =>
            LET n == fargs.ncomp.v
                first == SubSeq(model.components_, 1, RangeLen(n))
            IN  /\ store'.pca_components_all_npy = <<model.components_>>
                /\ store'.pca_explained_variance_all_npy
                      = <<model.explained_variance_ratio_>>
                /\ store'.pca_scores_all_npy =
                      IF fargs.save_pca_scores THEN <<model.scores>>
                      ELSE store.pca_scores_all_npy
                /\ store'.pca_components_csv[n] = <<first>>
                /\ store'.pca_carpet_correlation_report_csv[1].expl_var
                      = SubSeq(model.explained_variance_ratio_, 1, RangeLen(n))
                /\ store'.pca_carpet_correlation_report_csv[1].carpet_R_median
                      = [i \in 1..RangeLen(n) |->
                            Median(Column(pearsonr_2d(carpet, first), i))]
       /\ pc = "flip" => store' = store]_vars

\* C5's case: a finished fit that flipped a component: the table on disk
\* still holds it with the sign of the full component file beside it.
C5_Witness ==
    /\ pc = "idle"
    /\ "PCs" \in attrs
    /\ store.pca_components_all_npy # <<>>
    /\ store.pca_components_csv[ncomp] # <<>>
    /\ Len(store.pca_components_csv[ncomp][1]) = Len(PCs)
    /\ \E i \in 1..Len(PCs) :
          /\ store.pca_components_csv[ncomp][1][i] # PCs[i]
          /\ store.pca_components_csv[ncomp][1][i]
                = store.pca_components_all_npy[1][i]

\* ncomp is a positive integer no larger than the number of samples.
ValidNcomp(nc) == nc.kind = "int" /\ nc.v >= 1 /\ nc.v <= shape[4]

\* C6 (as claimed).  A fit_pca_and_correlate call whose ncomp is not a
\* positive integer, or exceeds the number of samples, writes no file and
\* sets no component or correlation, and ends in an error.
C6_InvalidNcompFails ==
    [][(pc # "idle" /\ ~ValidNcomp(fargs.ncomp)) =>
          /\ store' = store
          /\ PCs' = PCs
          /\ PC_carpet_R' = PC_carpet_R
          /\ pc' = "idle" => err'.type # "none"]_vars

\* C9.  The sign flip negates component i and column i of the correlations
\* together, exactly when flip_sign is set and the original median of the
\* column is negative, and leaves them as they were otherwise; it changes
\* neither the files (the full component set among them), nor the explained
\* variance, nor the carpet.
C9_FlipConsistent ==
    [][pc = "flip" =>
          /\ Len(PCs') = Len(loc.PCs)
          /\ Len(PC_carpet_R') = Len(loc.PC_carpet_R)
          /\ \A i \in 1..Len(loc.PCs) :
                IF fargs.flip_sign
                      /\ Negative(Median(Column(loc.PC_carpet_R, i)))
                THEN /\ PCs'[i] = [t \in 1..Len(loc.PCs[i]) |-> Neg(loc.PCs[i][t])]
                     /\ Column(PC_carpet_R', i)
                           = [v \in 1..Len(loc.PC_carpet_R) |->
                                 CorrNeg(loc.PC_carpet_R[v][i])]
                ELSE /\ PCs'[i] = loc.PCs[i]
                     /\ Column(PC_carpet_R', i) = Column(loc.PC_carpet_R, i)
          /\ store'.pca_components_all_npy = store.pca_components_all_npy
          /\ store'.pca_explained_variance_all_npy
                = store.pca_explained_variance_all_npy
          /\ expl_var' = expl_var
          /\ carpet' = carpet]_vars

\* C9's case: a finished fit of two components, one negated and one kept.
C9_Witness ==
    /\ pc = "idle"
    /\ "PCs" \in attrs
    /\ Len(PCs) = 2
    /\ store.pca_components_csv[2] # <<>>
    /\ store.pca_components_csv[2][1][1] # PCs[1]
    /\ store.pca_components_csv[2][1][2] = PCs[2]
    /\ \E v \in 1..Len(PC_carpet_R) : PC_carpet_R[v][1].n > 0

FitFiles ==
    <<store.pca_components_all_npy, store.pca_explained_variance_all_npy,
      store.pca_scores_all_npy, store.pca_carpet_correlation_report_csv>>

\* C10.  While get_carpet has not completed, no fit_pca_and_correlate call
\* gets past its first lines: it ends in an error, writes no file and leaves
\* no PCs, PC_carpet_R or expl_var on the object.
C10_CarpetFirst ==
    "carpet" \notin attrs =>
        /\ pc = "idle"
        /\ attrs \cap {"PCs", "PC_carpet_R", "expl_var"} = {}
        /\ FitFiles = <<<<>>, <<>>, <<>>, <<>>>>
        /\ \A n \in NcompInts : store.pca_components_csv[n] = <<>>
        /\ last = "fit_pca_and_correlate" => err.type = "AttributeError"

\* C10's case: fit_pca_and_correlate was called before get_carpet.
C10_Witness ==
    /\ last = "fit_pca_and_correlate"
    /\ "carpet" \notin attrs
    /\ err = Raised("AttributeError", 239)
    /\ "ncomp" \in attrs
====
